---- MODULE Spec2Model ----
(***************************************************************************)
(* VoiceHub: the store retry wrapper (server/plugins/error-handler.ts,     *)
(* lines 77-100), the process fault handlers, health check timer and close *)
(* hook of the same plugin (lines 8-66), and the open-API song-listing     *)
(* handler (same file, lines 116-470) with its shared cache.               *)
(*                                                                         *)
(* Text is modelled as a sequence: an error message is a sequence of       *)
(* words, a title / artist / search string a sequence of character codes,  *)
(* so that String.includes and SQL LIKE '%s%' are real sub-sequence tests. *)
(***************************************************************************)
EXTENDS Integers, Sequences, FiniteSets, TLC

\* ------------------------------------------------------------------------
\* Text helpers
\* ------------------------------------------------------------------------

\* String.prototype.includes: needle occurs in hay as a contiguous run.
Includes(hay, needle) ==
    \E i \in 0..(Len(hay) - Len(needle)) :
        \A j \in 1..Len(needle) : hay[i + j] = needle[j]

\* ------------------------------------------------------------------------
\* The store retry wrapper: db.execute = new Proxy(originalExecute, {apply})
\* ------------------------------------------------------------------------

ECONNRESET == <<"ECONNRESET">>
ENOTFOUND == <<"ENOTFOUND">>
ETIMEDOUT == <<"ETIMEDOUT">>
ConnectionTerminated == <<"Connection", "terminated">>
ConnectionLost == <<"Connection", "lost">>

\* The five transient-connectivity markers the specification lists (they are
\* the ones the unhandledRejection handler tests).
TransientMarkers ==
    {ECONNRESET, ENOTFOUND, ETIMEDOUT, ConnectionTerminated, ConnectionLost}

IsTransientMessage(m) == \E k \in TransientMarkers : Includes(m, k)

\* Failure messages the store can produce.
Messages ==
    { <<"read", "ECONNRESET">>,
      <<"getaddrinfo", "ENOTFOUND", "db">>,
      <<"connect", "ETIMEDOUT">>,
      <<"Connection", "terminated", "unexpectedly">>,
      <<"Connection", "lost">>,
      <<"Connection", "refused">>,
      <<"syntax", "error">>,
      <<"terminated", "Connection">>,
      <<"ETIMEDOUT", "after", "Connection", "terminated">> }

\* Results a successful store execution can resolve to.
Rows == {"rowsA", "rowsB"}

\* Argument lists db.execute is called with.
Statements == {"SELECT 1 as health_check", "stmtA", "stmtB"}

\* setTimeout(resolve, 1000) in the retry branch.
RetryDelayMs == 1000

NoValue == "none"

\* wtimer when no setTimeout has been made.
NoTimer == -1

\* wout while the caller is still waiting.
Pending == [pending |-> TRUE]

\* A mutant of the retry test: any message about the connection is retried.
ShouldRetryAnyConnection(m) ==
    \/ Includes(m, ECONNRESET)
    \/ Includes(m, <<"Connection">>)

\* The catch clause's test: only ECONNRESET and 'Connection terminated'.
ShouldRetry(m) ==
    \/ Includes(m, ECONNRESET)
    \/ Includes(m, ConnectionTerminated)

VARIABLES
    wpc,        \* position of the wrapper invocation
    wargs,      \* argumentsList of the invocation
    wcalls,     \* the target.apply calls made so far: <<args, ...>>
    winflight,  \* number of target.apply calls not yet settled
    wsettled,   \* how the attempts settled, in order: [ok |-> r] or [err |-> m]
    wtimer,     \* delay of the pending / elapsed setTimeout, or NoTimer
    wout        \* what the caller receives: Pending, [ok |-> r] or [err |-> m]

wvars == <<wpc, wargs, wcalls, winflight, wsettled, wtimer, wout>>

VARIABLES
    catalog,    \* the store's tables
    cache,      \* the shared cache: key -> <<>> (miss) or <<entry>>
    openCache,  \* the keys written to openApiCache
    task        \* per request: position, parameters, locals, outcome

hvars == <<catalog, cache, openCache, task>>

VARIABLES
    alive,          \* the process is running
    interval,       \* healthCheckInterval: "active" or "cleared"
    clock,          \* ms since the plugin was initialised, at the last tick
    closedAt,       \* clock when the close hook ran, or NotClosed
    probes,         \* the health probes started so far, in order
    pending,        \* faults emitted on a process channel, not yet handled
    lastFault,      \* <<>> or <<what the handler did with the last fault>>
    reconnecting    \* unhandledRejection handlers in their 2 s wait

pvars == <<alive, interval, clock, closedAt, probes, pending, lastFault,
           reconnecting>>

VARIABLES
    norm        \* <<>> or <<the page, limit and offset derived from a raw query>>

nvars == <<norm>>

vars == <<wvars, hvars, pvars, nvars>>

WInit ==
    /\ wpc = "idle"
    /\ wargs = NoValue
    /\ wcalls = <<>>
    /\ winflight = 0
    /\ wsettled = <<>>
    /\ wtimer = NoTimer
    /\ wout = Pending

\* db.execute(args): the apply trap starts the first target.apply.
WCall(a) ==
    /\ wpc \in {"idle", "returned", "thrown"}
    /\ wpc' = "try1"
    /\ wargs' = a
    /\ wcalls' = <<a>>
    /\ winflight' = 1
    /\ wsettled' = <<>>
    /\ wtimer' = NoTimer
    /\ wout' = Pending
    /\ UNCHANGED <<hvars, pvars, nvars>>

\* The first attempt resolves: return await target.apply(...).
WFirstOk(r) ==
    /\ wpc = "try1"
    /\ wpc' = "returned"
    /\ winflight' = winflight - 1
    /\ wsettled' = Append(wsettled, [ok |-> r])
    /\ wout' = [ok |-> r]
    /\ UNCHANGED <<wargs, wcalls, wtimer, hvars, pvars, nvars>>

\* What the catch clause does with the first failure m.  A mutant: the retry
\* is made without the delay.
AfterFirstFailureNoDelay(m) ==
    IF ShouldRetry(m)
    THEN [pc |-> "delay", timer |-> NoTimer, out |-> Pending]
    ELSE [pc |-> "thrown", timer |-> NoTimer, out |-> [err |-> m]]

AfterFirstFailure(m) ==
    IF ShouldRetry(m)
    THEN [pc |-> "delay", timer |-> RetryDelayMs, out |-> Pending]
    ELSE [pc |-> "thrown", timer |-> NoTimer, out |-> [err |-> m]]

\* The first attempt rejects with message m.
WFirstFail(m) ==
    /\ wpc = "try1"
    /\ winflight' = winflight - 1
    /\ wsettled' = Append(wsettled, [err |-> m])
    /\ wpc' = AfterFirstFailure(m).pc
    /\ wtimer' = AfterFirstFailure(m).timer
    /\ wout' = AfterFirstFailure(m).out
    /\ UNCHANGED <<wargs, wcalls, hvars, pvars, nvars>>

\* The timer elapses and the retry's target.apply is started.
WRetry ==
    /\ wpc = "delay"
    /\ wpc' = "try2"
    /\ wcalls' = Append(wcalls, wargs)
    /\ winflight' = winflight + 1
    /\ UNCHANGED <<wargs, wsettled, wtimer, wout, hvars, pvars, nvars>>

\* What the retry branch hands back when the retry resolves to r, given how
\* the attempts before it settled.  A mutant: the first failure is thrown.
AfterRetrySuccessThrow(settled, r) ==
    [pc |-> "thrown", out |-> settled[1]]

AfterRetrySuccess(settled, r) ==
    [pc |-> "returned", out |-> [ok |-> r]]

\* The retry resolves: return await target.apply(...).
WRetryOk(r) ==
    /\ wpc = "try2"
    /\ winflight' = winflight - 1
    /\ wsettled' = Append(wsettled, [ok |-> r])
    /\ wpc' = AfterRetrySuccess(wsettled, r).pc
    /\ wout' = AfterRetrySuccess(wsettled, r).out
    /\ UNCHANGED <<wargs, wcalls, wtimer, hvars, pvars, nvars>>

\* What the inner catch does with the retry's failure m, given how the
\* attempts before it settled.  A mutant: a retry failure that is itself
\* retryable starts one more attempt.
AfterRetryFailureAgain(settled, m) ==
    IF ShouldRetry(m) /\ Len(settled) < 2
    THEN [pc |-> "delay", out |-> Pending]
    ELSE [pc |-> "thrown", out |-> [err |-> m]]

AfterRetryFailure(settled, m) ==
    [pc |-> "thrown", out |-> [err |-> m]]

\* The retry rejects with message m: console.error, throw retryError.
WRetryFail(m) ==
    /\ wpc = "try2"
    /\ winflight' = winflight - 1
    /\ wsettled' = Append(wsettled, [err |-> m])
    /\ wpc' = AfterRetryFailure(wsettled, m).pc
    /\ wout' = AfterRetryFailure(wsettled, m).out
    /\ UNCHANGED <<wargs, wcalls, wtimer, hvars, pvars, nvars>>

\* ------------------------------------------------------------------------
\* The process fault handlers, the health check timer and the close hook
\* ------------------------------------------------------------------------

\* Interval firings the model follows, and unhandledRejection handlers it lets
\* wait at the same time.
MaxTicks == 2
MaxWaiting == 2

\* setInterval(..., 60000)
HealthCheckIntervalMs == 60000

\* closedAt before the close hook has run.
NotClosed == -1

\* What can be thrown or rejected with: a value that carries a message, or one
\* that does not (throw null, throw 'text', reject(undefined)).
NoMessage == [hasMessage |-> FALSE, message |-> <<>>]

WithMessage(m) == [hasMessage |-> TRUE, message |-> m]

FaultValues ==
    { NoMessage,
      WithMessage(<<"read", "ECONNRESET">>),
      WithMessage(<<"connect", "ETIMEDOUT">>),
      WithMessage(<<"Connection", "lost">>),
      WithMessage(<<"syntax", "error">>) }

\* Failure messages of the health probe's store execution.
ProbeFailures == { <<"read", "ECONNRESET">>, <<"syntax", "error">> }

\* The test of the unhandledRejection handler: reason is an object with a
\* message, and the message includes one of five markers.
RejectionIsTransient(v) ==
    /\ v.hasMessage
    /\ \/ Includes(v.message, ECONNRESET)
       \/ Includes(v.message, ENOTFOUND)
       \/ Includes(v.message, ETIMEDOUT)
       \/ Includes(v.message, ConnectionTerminated)
       \/ Includes(v.message, ConnectionLost)

\* The test of the uncaughtException handler: three markers.
ExceptionIsDatabaseRelated(m) ==
    \/ Includes(m, ECONNRESET)
    \/ Includes(m, ENOTFOUND)
    \/ Includes(m, ETIMEDOUT)

\* The unhandledRejection handler up to its await or its end: the fault is
\* logged, a transient one starts the 2 s wait.
OnUnhandledRejection(f) ==
    [ record |-> [channel |-> f.channel, origin |-> f.origin,
                  value |-> f.value, logged |-> TRUE,
                  transient |-> RejectionIsTransient(f.value)],
      waits |-> IF RejectionIsTransient(f.value) THEN 1 ELSE 0,
      alive |-> TRUE ]

\* The uncaughtException handler: the fault is logged, then error.message
\* .includes is evaluated.  On a value without a message that evaluation
\* throws a TypeError inside the handler, and an exception thrown by an
\* 'uncaughtException' listener ends the process (exit code 7).
OnUncaughtException(f) ==
    [ record |-> [channel |-> f.channel, origin |-> f.origin,
                  value |-> f.value, logged |-> TRUE,
                  transient |-> IF f.value.hasMessage
                                THEN ExceptionIsDatabaseRelated(f.value.message)
                                ELSE FALSE],
      waits |-> 0,
      alive |-> f.value.hasMessage ]

\* A probe that has just been started by the interval callback at time now.
NewProbe(now) ==
    [startedAt |-> now, pc |-> "try1", calls |-> 1, settled |-> <<>>,
     logged |-> FALSE]

\* The callback's catch clause: console.error, nothing is raised.  A mutant:
\* the failure is logged and thrown again out of the async callback.
HealthCheckCatchRethrow(m) ==
    [logged |-> TRUE,
     raised |-> {[channel |-> "unhandledRejection", origin |-> "health",
                  value |-> WithMessage(m)]}]

HealthCheckCatch(m) == [logged |-> TRUE, raised |-> {}]

\* clearInterval(healthCheckInterval) in the close hook.  A mutant: the hook
\* leaves the interval running.
CloseKeepsInterval(iv) == iv

Close(iv) == "cleared"

PInit ==
    /\ alive = TRUE
    /\ interval = "active"
    /\ clock = 0
    /\ closedAt = NotClosed
    /\ probes = <<>>
    /\ pending = {}
    /\ lastFault = <<>>
    /\ reconnecting = 0

\* Somewhere in the process a promise rejection goes unhandled or an
\* exception goes uncaught.
Fault(ch, v) ==
    /\ alive
    /\ pending = {}
    /\ reconnecting < MaxWaiting
    /\ pending' = {[channel |-> ch, origin |-> "process", value |-> v]}
    /\ UNCHANGED <<alive, interval, clock, closedAt, probes, lastFault,
                   reconnecting, wvars, hvars, nvars>>

\* process.on('unhandledRejection', async (reason, promise) => ...)
UnhandledRejection ==
    /\ alive
    /\ \E f \in pending :
        /\ f.channel = "unhandledRejection"
        /\ pending' = pending \ {f}
        /\ lastFault' = <<OnUnhandledRejection(f).record>>
        /\ reconnecting' = reconnecting + OnUnhandledRejection(f).waits
        /\ alive' = OnUnhandledRejection(f).alive
    /\ UNCHANGED <<interval, clock, closedAt, probes, wvars, hvars, nvars>>

\* The handler's 2 s wait elapses: 'Database reconnection successful'.
ReconnectWaitElapses ==
    /\ alive
    /\ reconnecting > 0
    /\ reconnecting' = reconnecting - 1
    /\ UNCHANGED <<alive, interval, clock, closedAt, probes, pending,
                   lastFault, wvars, hvars, nvars>>

\* process.on('uncaughtException', (error) => ...)
UncaughtException ==
    /\ alive
    /\ \E f \in pending :
        /\ f.channel = "uncaughtException"
        /\ pending' = pending \ {f}
        /\ lastFault' = <<OnUncaughtException(f).record>>
        /\ alive' = OnUncaughtException(f).alive
    /\ UNCHANGED <<interval, clock, closedAt, probes, reconnecting, wvars,
                   hvars, nvars>>

\* The interval fires: the callback starts one probe, db.execute(SELECT 1),
\* which enters the wrapper's first target.apply.
IntervalFires ==
    /\ alive
    /\ interval = "active"
    /\ Len(probes) < MaxTicks
    /\ clock' = clock + HealthCheckIntervalMs
    /\ probes' = Append(probes, NewProbe(clock + HealthCheckIntervalMs))
    /\ UNCHANGED <<alive, interval, closedAt, pending, lastFault,
                   reconnecting, wvars, hvars, nvars>>

\* nitroApp.hooks.hook('close', ...)
CloseHook ==
    /\ alive
    /\ closedAt = NotClosed
    /\ interval' = Close(interval)
    /\ closedAt' = clock
    /\ UNCHANGED <<alive, clock, probes, pending, lastFault, reconnecting,
                   wvars, hvars, nvars>>

\* The probe's execution resolves (first attempt or retry): the callback ends.
ProbeResolves(i) ==
    /\ alive
    /\ i \in DOMAIN probes
    /\ probes[i].pc \in {"try1", "try2"}
    /\ probes' = [probes EXCEPT ![i].pc = "ok",
                                ![i].settled = Append(@, [ok |-> "rowsA"])]
    /\ UNCHANGED <<alive, interval, clock, closedAt, pending, lastFault,
                   reconnecting, wvars, hvars, nvars>>

\* What the wrapper does with a failure m of probe p's attempt.
ProbeAttemptFailure(p, m) ==
    IF p.pc = "try1" THEN AfterFirstFailure(m).pc
    ELSE AfterRetryFailure(p.settled, m).pc

\* The probe's attempt rejects: the wrapper delays and retries, or throws to
\* the callback, whose catch clause logs.
ProbeRejects(i, m) ==
    /\ alive
    /\ i \in DOMAIN probes
    /\ probes[i].pc \in {"try1", "try2"}
    /\ IF ProbeAttemptFailure(probes[i], m) = "delay"
       THEN /\ probes' = [probes EXCEPT ![i].pc = "delay",
                                        ![i].settled = Append(@, [err |-> m])]
            /\ UNCHANGED pending
       ELSE /\ probes' = [probes EXCEPT ![i].pc = "caught",
                                        ![i].settled = Append(@, [err |-> m]),
                                        ![i].logged = HealthCheckCatch(m).logged]
            /\ pending' = pending \cup HealthCheckCatch(m).raised
    /\ UNCHANGED <<alive, interval, clock, closedAt, lastFault, reconnecting,
                   wvars, hvars, nvars>>

\* The wrapper's 1 s delay elapses and the probe's retry is started.
ProbeRetry(i) ==
    /\ alive
    /\ i \in DOMAIN probes
    /\ probes[i].pc = "delay"
    /\ probes' = [probes EXCEPT ![i].pc = "try2", ![i].calls = @ + 1]
    /\ UNCHANGED <<alive, interval, clock, closedAt, pending, lastFault,
                   reconnecting, wvars, hvars, nvars>>

\* ------------------------------------------------------------------------
\* The catalog store: the five tables the song listing reads
\* ------------------------------------------------------------------------

\* SQL NULL / JS null in an integer or timestamp column.
NullInt == -1

\* SQL NULL / JS null in a text column.
NullStr == "null"

\* JS truthiness of a text value.
TruthyStr(x) == x \notin {"", NullStr}

\* JS truthiness of an integer value.
TruthyInt(x) == x \notin {0, NullInt}

\* A catalog with same-name requesters in one grade (users 1, 2), in another
\* grade (user 3), a unique name (user 4), a song without requester (song 4),
\* equal vote counts (songs 1, 2), draft and published schedule rows.
CatalogA ==
    [ users |->
        << [id |-> 1, name |-> "Li", grade |-> "G3", class |-> "1"],
           [id |-> 2, name |-> "Li", grade |-> "G3", class |-> "2"],
           [id |-> 3, name |-> "Li", grade |-> "G2", class |-> "1"],
           [id |-> 4, name |-> "Wu", grade |-> "G3", class |-> NullStr] >>,
      songs |->
        << [id |-> 1, title |-> <<1>>, artist |-> <<9>>, semester |-> "S1",
            played |-> FALSE, playedAt |-> NullInt, createdAt |-> 1,
            requesterId |-> 1, preferredPlayTimeId |-> NullInt],
           [id |-> 2, title |-> <<2, 1>>, artist |-> <<8>>, semester |-> "S1",
            played |-> TRUE, playedAt |-> 7, createdAt |-> 2,
            requesterId |-> 3, preferredPlayTimeId |-> 1],
           [id |-> 3, title |-> <<3>>, artist |-> <<7>>, semester |-> "S2",
            played |-> FALSE, playedAt |-> NullInt, createdAt |-> 3,
            requesterId |-> 4, preferredPlayTimeId |-> 2],
           [id |-> 4, title |-> <<4>>, artist |-> <<1, 6>>, semester |-> NullStr,
            played |-> TRUE, playedAt |-> 8, createdAt |-> 4,
            requesterId |-> NullInt, preferredPlayTimeId |-> NullInt] >>,
      votes |->
        << [id |-> 1, songId |-> 1], [id |-> 2, songId |-> 2],
           [id |-> 3, songId |-> 3], [id |-> 4, songId |-> 3] >>,
      schedules |->
        << [songId |-> 1, isDraft |-> TRUE], [songId |-> 1, isDraft |-> FALSE],
           [songId |-> 2, isDraft |-> TRUE] >>,
      playTimes |->
        << [id |-> 1, name |-> "noon", startTime |-> 12, endTime |-> 13,
            enabled |-> TRUE] >> ]

\* A catalog whose same-name requesters lack a grade (user 1) or a class
\* (user 3): both columns are nullable.
CatalogB ==
    [ users |->
        << [id |-> 1, name |-> "Zhao", grade |-> NullStr, class |-> NullStr],
           [id |-> 2, name |-> "Zhao", grade |-> "G1", class |-> "1"],
           [id |-> 3, name |-> "Qian", grade |-> "G1", class |-> NullStr],
           [id |-> 4, name |-> "Qian", grade |-> "G1", class |-> "2"] >>,
      songs |->
        << [id |-> 1, title |-> <<1>>, artist |-> <<9>>, semester |-> "S1",
            played |-> FALSE, playedAt |-> NullInt, createdAt |-> 1,
            requesterId |-> 1, preferredPlayTimeId |-> NullInt],
           [id |-> 2, title |-> <<2>>, artist |-> <<8>>, semester |-> "S1",
            played |-> FALSE, playedAt |-> NullInt, createdAt |-> 2,
            requesterId |-> 3, preferredPlayTimeId |-> 1] >>,
      votes |-> << [id |-> 1, songId |-> 2] >>,
      schedules |-> << [songId |-> 2, isDraft |-> FALSE] >>,
      playTimes |->
        << [id |-> 1, name |-> "noon", startTime |-> 12, endTime |-> 13,
            enabled |-> TRUE] >> ]

Catalogs == {CatalogA, CatalogB}

\* The set of elements of a sequence.
Range(s) == {s[i] : i \in DOMAIN s}

\* leftJoin(users, eq(songs.requesterId, users.id)): the joined user, if any.
JoinedUser(cat, song) ==
    SelectSeq(cat.users, LAMBDA u : u.id = song.requesterId)

\* ------------------------------------------------------------------------
\* Request parameters (lines 129-137)
\* ------------------------------------------------------------------------

\* parseInt of a missing or non-numeric text.
NaN == -999

\* parseInt(raw) || dflt: NaN and 0 are falsy.
ParseIntOr(raw, dflt) == IF raw = NaN \/ raw = 0 THEN dflt ELSE raw

Min(a, b) == IF a < b THEN a ELSE b

DefaultPage == 1
DefaultLimit == 20
LimitCap == 100

\* Math.min(parseInt(query.limit) || 20, 100), given what parseInt returned.
\* A mutant: the limit without the cap.
EffectiveLimitUncapped(parsed) == ParseIntOr(parsed, DefaultLimit)

EffectiveLimit(parsed) == Min(ParseIntOr(parsed, DefaultLimit), LimitCap)

\* The parameters the handler works with, from the raw query q; q.page and
\* q.limit are what parseInt returned for the raw texts.
Params(q) ==
    [ search |-> q.search,
      semester |-> q.semester,
      grade |-> q.grade,
      played |-> q.played,
      scheduled |-> q.scheduled,
      page |-> ParseIntOr(q.page, DefaultPage),
      limit |-> EffectiveLimit(q.limit),
      sortBy |-> IF q.sortBy = "" THEN "createdAt" ELSE q.sortBy,
      sortOrder |-> IF q.sortOrder = "" THEN "desc" ELSE q.sortOrder ]

\* offset of the songs query and startIndex of the hit path's slice.
Offset(p) == (p.page - 1) * p.limit

\* parseInt(text, 10) on a text given as a sequence of characters: an
\* optional sign, then the longest run of digits; NaN when there is none.
DigitValue ==
    [c \in {"0", "1", "2", "3", "4", "5", "6", "7", "8", "9"} |->
        CASE c = "0" -> 0 [] c = "1" -> 1 [] c = "2" -> 2 [] c = "3" -> 3
          [] c = "4" -> 4 [] c = "5" -> 5 [] c = "6" -> 6 [] c = "7" -> 7
          [] c = "8" -> 8 [] c = "9" -> 9]

RECURSIVE DigitPrefix(_, _, _)
\* The value of the digits at the head of text, acc being the value so far
\* and seen whether a digit has been read.
DigitPrefix(text, acc, seen) ==
    IF text # <<>> /\ Head(text) \in DOMAIN DigitValue
    THEN DigitPrefix(Tail(text), 10 * acc + DigitValue[Head(text)], TRUE)
    ELSE IF seen THEN acc ELSE NaN

ParseInt(text) ==
    IF text # <<>> /\ Head(text) = "-"
    THEN LET v == DigitPrefix(Tail(text), 0, FALSE)
         IN  IF v = NaN THEN NaN ELSE 0 - v
    ELSE DigitPrefix(text, 0, FALSE)

\* Longest raw text the model follows, and the characters it is made of.
MaxRawLen == 3

RawChars == {"-", "0", "1", "5", "x"}

RawTexts ==
    UNION {[1..n -> RawChars] : n \in 0..MaxRawLen}

\* A query with raw page and limit texts and nothing else.
RawQuery(pageText, limitText) ==
    [search |-> <<>>, semester |-> "", grade |-> "", played |-> "",
     scheduled |-> "", page |-> ParseInt(pageText),
     limit |-> ParseInt(limitText), sortBy |-> "", sortOrder |-> ""]

\* Lines 134-135, 160 and 232 for one raw query.
Normalise(pageText, limitText) ==
    /\ norm = <<>>
    /\ norm' = << [ rawPage |-> pageText, rawLimit |-> limitText,
                    page |-> Params(RawQuery(pageText, limitText)).page,
                    limit |-> Params(RawQuery(pageText, limitText)).limit,
                    offset |-> Offset(Params(RawQuery(pageText, limitText))) ] >>
    /\ UNCHANGED <<wvars, hvars, pvars>>

\* ------------------------------------------------------------------------
\* Cache key (lines 139-148)
\* ------------------------------------------------------------------------

\* A mutant: the page is part of the hashed object.
NormalApiCacheKeyWithPage(p) ==
    <<"songs:list", p.search, p.semester, p.sortBy, p.sortOrder, p.page>>

\* `songs:list:${md5(JSON.stringify({search, semester, sortBy, sortOrder}))}`:
\* the key is the prefix and the serialised four fields (the digest is taken
\* to be collision free, so it is the serialisation itself).
NormalApiCacheKey(p) ==
    <<"songs:list", p.search, p.semester, p.sortBy, p.sortOrder>>

\* ------------------------------------------------------------------------
\* The store queries of the miss path (lines 203-313)
\* ------------------------------------------------------------------------

\* whereCondition: and(...conditions) over a song row and its joined user.
WhereCondition(p, song, joined) ==
    /\ (p.search # <<>>) =>
          (Includes(song.title, p.search) \/ Includes(song.artist, p.search))
    /\ TruthyStr(p.semester) => song.semester = p.semester
    /\ TruthyStr(p.grade) => (joined # <<>> /\ joined[1].grade = p.grade)
    /\ (p.played = "true") => song.played
    /\ (p.played = "false") => ~song.played

MatchingSongs(cat, p) ==
    SelectSeq(cat.songs, LAMBDA s : WhereCondition(p, s, JoinedUser(cat, s)))

\* select count() ... where(whereCondition); Number(totalResult[0]?.count || 0)
TotalQuery(cat, p) == Len(MatchingSongs(cat, p))

\* Lexicographic order of two texts.
RECURSIVE TextLess(_, _)
TextLess(a, b) ==
    IF b = <<>> THEN FALSE
    ELSE IF a = <<>> THEN TRUE
    ELSE IF a[1] # b[1] THEN a[1] < b[1]
    ELSE TextLess(Tail(a), Tail(b))

\* PostgreSQL sorts NULL as larger than every value.
NullsLargeLess(a, b) ==
    IF a = NullInt THEN FALSE ELSE IF b = NullInt THEN TRUE ELSE a < b

\* The orderBy expression: a comes strictly before b.
OrderLess(p, a, b) ==
    LET up == p.sortOrder # "desc"
    IN  IF p.sortBy = "createdAt"
        THEN IF up THEN a.createdAt < b.createdAt ELSE b.createdAt < a.createdAt
        ELSE IF p.sortBy = "title"
        THEN IF up THEN TextLess(a.title, b.title) ELSE TextLess(b.title, a.title)
        ELSE IF p.sortBy = "artist"
        THEN IF up THEN TextLess(a.artist, b.artist)
                   ELSE TextLess(b.artist, a.artist)
        ELSE IF p.sortBy = "playedAt"
        THEN IF up THEN NullsLargeLess(a.playedAt, b.playedAt)
                   ELSE NullsLargeLess(b.playedAt, a.playedAt)
        ELSE b.createdAt < a.createdAt

\* x put into the sorted sequence s, after every element it does not precede.
RECURSIVE InsertOrdered(_, _, _)
InsertOrdered(p, x, s) ==
    IF s = <<>> THEN <<x>>
    ELSE IF OrderLess(p, x, s[1]) THEN <<x>> \o s
    ELSE <<s[1]>> \o InsertOrdered(p, x, Tail(s))

RECURSIVE OrderedPrefix(_, _, _)
OrderedPrefix(p, s, n) ==
    IF n = 0 THEN <<>>
    ELSE InsertOrdered(p, s[n], OrderedPrefix(p, s, n - 1))

\* LIMIT lim OFFSET off of a row sequence (both non-negative).
LimitOffset(s, lim, off) ==
    SubSeq(s, off + 1, Min(off + lim, Len(s)))

\* The selected row of a song: its columns and the joined requester.
SongRow(cat, s) ==
    [ id |-> s.id, title |-> s.title, artist |-> s.artist,
      played |-> s.played, playedAt |-> s.playedAt, semester |-> s.semester,
      createdAt |-> s.createdAt, preferredPlayTimeId |-> s.preferredPlayTimeId,
      requester |-> JoinedUser(cat, s) ]

\* songsData: where, orderBy, limit(limit), offset((page - 1) * limit).
SongsQuery(cat, p) ==
    LET m == MatchingSongs(cat, p)
        ordered == OrderedPrefix(p, m, Len(m))
        page == LimitOffset(ordered, p.limit, Offset(p))
    IN  [i \in 1..Len(page) |-> SongRow(cat, page[i])]

\* voteCounts: songId -> count(votes.id), for the page's ids that have votes.
VoteCountsQuery(cat, songIds) ==
    [ id \in {v.songId : v \in Range(cat.votes)} \cap songIds |->
        Cardinality({v \in Range(cat.votes) : v.songId = id}) ]

\* scheduledSongs: the page's ids with a schedule row that is not a draft.
\* A mutant: draft rows count as well.
ScheduledSongsQueryWithDrafts(cat, songIds) ==
    {r.songId : r \in Range(cat.schedules)} \cap songIds

ScheduledSongsQuery(cat, songIds) ==
    {r.songId : r \in {x \in Range(cat.schedules) : ~x.isDraft}} \cap songIds

\* playTimesMap: id -> play-time row.
PlayTimesQuery(cat) ==
    [ id \in {pt.id : pt \in Range(cat.playTimes)} |->
        CHOOSE pt \in Range(cat.playTimes) : pt.id = id ]

\* allUsers: select id, name, grade, class from users.
AllUsersQuery(cat) == cat.users

\* ------------------------------------------------------------------------
\* Aggregation of the page (lines 315-411)
\* ------------------------------------------------------------------------

UnknownUser == "UnknownUser"

\* nameToUsers.get(name): the users with that (truthy) name.
SameNameUsers(allUsers, name) ==
    SelectSeq(allUsers, LAMBDA u : TruthyStr(u.name) /\ u.name = name)

\* requesterName of a song row: plain, with grade, or with grade and class.
\* A mutant: the class is never appended.
RequesterNameGradeOnly(allUsers, row) ==
    LET plain == IF row.requester # <<>> /\ TruthyStr(row.requester[1].name)
                 THEN row.requester[1].name ELSE UnknownUser
        sameNameUsers == SameNameUsers(allUsers, plain)
    IN  IF Len(sameNameUsers) > 1
           /\ row.requester # <<>> /\ TruthyStr(row.requester[1].grade)
        THEN plain \o "(" \o row.requester[1].grade \o ")"
        ELSE plain

RequesterName(allUsers, row) ==
    LET plain == IF row.requester # <<>> /\ TruthyStr(row.requester[1].name)
                 THEN row.requester[1].name ELSE UnknownUser
        sameNameUsers == SameNameUsers(allUsers, plain)
    IN  IF Len(sameNameUsers) > 1
           /\ row.requester # <<>> /\ TruthyStr(row.requester[1].grade)
        THEN LET r == row.requester[1]
                 sameGradeUsers ==
                     SelectSeq(sameNameUsers, LAMBDA u : u.grade = r.grade)
             IN  IF Len(sameGradeUsers) > 1 /\ TruthyStr(r.class)
                 THEN plain \o "(" \o r.grade \o " " \o r.class \o ")"
                 ELSE plain \o "(" \o r.grade \o ")"
        ELSE plain

\* formatDateTime of a timestamp (imported from utils/timeUtils).
FormatDateTime(t) == <<"formatted", t>>

\* songObject of a song row, from the four query results of the request.
SongObject(row, voteCounts, scheduledSongs, playTimesMap, allUsers) ==
    [ id |-> row.id,
      title |-> row.title,
      artist |-> row.artist,
      requester |-> RequesterName(allUsers, row),
      requesterId |-> IF row.requester # <<>> THEN row.requester[1].id
                      ELSE NullInt,
      voteCount |-> IF row.id \in DOMAIN voteCounts /\ TruthyInt(voteCounts[row.id])
                    THEN voteCounts[row.id] ELSE 0,
      played |-> row.played,
      playedAt |-> row.playedAt,
      playedAtFormatted |-> IF TruthyInt(row.playedAt)
                            THEN FormatDateTime(row.playedAt) ELSE <<>>,
      semester |-> row.semester,
      createdAt |-> row.createdAt,
      requestedAt |-> FormatDateTime(row.createdAt),
      scheduled |-> row.id \in scheduledSongs,
      preferredPlayTimeId |-> row.preferredPlayTimeId,
      preferredPlayTime |->
          IF TruthyInt(row.preferredPlayTimeId)
             /\ row.preferredPlayTimeId \in DOMAIN playTimesMap
          THEN <<playTimesMap[row.preferredPlayTimeId]>> ELSE <<>> ]

\* The scheduled filter over the composed page (lines 394-399).  A mutant:
\* no filter.
ScheduledFilterOff(p, songs) == songs

ScheduledFilter(p, songs) ==
    IF p.scheduled = "true" THEN SelectSeq(songs, LAMBDA s : s.scheduled)
    ELSE IF p.scheduled = "false" THEN SelectSeq(songs, LAMBDA s : ~s.scheduled)
    ELSE songs

\* The comparator of the votes sort: negative when a goes before b.  A
\* mutant: ties follow the sort order (later first under desc).
VotesCompareTiesFollowOrder(p, a, b) ==
    LET diff == IF p.sortOrder = "desc" THEN b.voteCount - a.voteCount
                ELSE a.voteCount - b.voteCount
    IN  IF diff = 0
        THEN IF p.sortOrder = "desc" THEN b.createdAt - a.createdAt
             ELSE a.createdAt - b.createdAt
        ELSE diff

VotesCompare(p, a, b) ==
    LET diff == IF p.sortOrder = "desc" THEN b.voteCount - a.voteCount
                ELSE a.voteCount - b.voteCount
    IN  IF diff = 0 THEN a.createdAt - b.createdAt ELSE diff

\* Array.prototype.sort is stable: x goes after every element it does not
\* precede.
RECURSIVE InsertByVotes(_, _, _)
InsertByVotes(p, x, s) ==
    IF s = <<>> THEN <<x>>
    ELSE IF VotesCompare(p, x, s[1]) < 0 THEN <<x>> \o s
    ELSE <<s[1]>> \o InsertByVotes(p, x, Tail(s))

RECURSIVE SortedByVotes(_, _, _)
SortedByVotes(p, s, n) ==
    IF n = 0 THEN <<>>
    ELSE InsertByVotes(p, s[n], SortedByVotes(p, s, n - 1))

\* The votes re-sort of the composed page (lines 401-411).
VotesSort(p, songs) ==
    IF p.sortBy = "votes" THEN SortedByVotes(p, songs, Len(songs)) ELSE songs

\* formattedSongs as it stands at line 413.
FormattedSongs(p, songsData, voteCounts, scheduledSongs, playTimesMap, allUsers) ==
    VotesSort(p,
        ScheduledFilter(p,
            [i \in 1..Len(songsData) |->
                SongObject(songsData[i], voteCounts, scheduledSongs,
                           playTimesMap, allUsers)]))

\* Math.ceil(total / limit) for limit > 0.
CeilDiv(a, b) == (a + b - 1) \div b

\* result of the miss path (lines 413-424).
MissResult(p, formattedSongs, total) ==
    [ success |-> TRUE,
      songs |-> formattedSongs,
      pagination |-> [ page |-> p.page, limit |-> p.limit, total |-> total,
                       totalPages |-> CeilDiv(total, p.limit) ] ]

\* normalApiResult, the value handed to cache.set (lines 427-438).
NormalApiResult(p, formattedSongs, total) ==
    [ success |-> TRUE,
      songs |-> formattedSongs,
      total |-> total,
      pagination |-> [ page |-> p.page, limit |-> p.limit,
                       totalPages |-> CeilDiv(total, p.limit) ] ]

\* ------------------------------------------------------------------------
\* The cache-hit path (lines 152-201)
\* ------------------------------------------------------------------------

Undefined == "undefined"

\* Array.prototype.slice(start, end).  A mutant: the element at end is
\* included.
JsSliceInclusive(s, start, end) ==
    LET n == Len(s)
        from == IF start < 0 THEN (IF n + start < 0 THEN 0 ELSE n + start)
                ELSE Min(start, n)
        to == IF end < 0 THEN (IF n + end < 0 THEN 0 ELSE n + end)
              ELSE Min(end + 1, n)
    IN  SubSeq(s, from + 1, to)

JsSlice(s, start, end) ==
    LET n == Len(s)
        from == IF start < 0 THEN (IF n + start < 0 THEN 0 ELSE n + start)
                ELSE Min(start, n)
        to == IF end < 0 THEN (IF n + end < 0 THEN 0 ELSE n + end)
              ELSE Min(end, n)
    IN  SubSeq(s, from + 1, to)

\* The open-API shape of a cached song (lines 167-186).  The cached
\* requester is the display name, a text: its name, grade and class
\* properties are undefined.
HitSong(song) ==
    [ id |-> song.id,
      title |-> song.title,
      artist |-> song.artist,
      semester |-> song.semester,
      voteCount |-> IF TruthyInt(song.voteCount) THEN song.voteCount ELSE 0,
      scheduled |-> song.scheduled,
      played |-> song.played,
      playedAt |-> song.playedAt,
      createdAt |-> song.createdAt,
      requester |-> IF TruthyStr(song.requester)
                    THEN <<[name |-> Undefined, grade |-> Undefined,
                            class |-> Undefined]>>
                    ELSE <<>> ]

\* A mutant: the hit path applies the grade filter to the cached songs
\* (song.requester.grade === grade, which no cached song satisfies).
HitSongsGradeFiltered(p, cached) ==
    LET kept == IF TruthyStr(p.grade) THEN <<>> ELSE cached.songs
        paginatedSongs == JsSlice(kept, (p.page - 1) * p.limit,
                                  (p.page - 1) * p.limit + p.limit)
    IN  [i \in 1..Len(paginatedSongs) |-> HitSong(paginatedSongs[i])]

\* paginatedSongs.map(...) of the cached entry (lines 156-186).
HitSongs(p, cached) ==
    LET paginatedSongs == JsSlice(cached.songs, Offset(p),
                                  Offset(p) + p.limit)
    IN  [i \in 1..Len(paginatedSongs) |-> HitSong(paginatedSongs[i])]

\* result of the hit path (lines 164-198).  A mutant: the pagination block
\* has the shape of the cached entry's, without total.
HitResultCachedShape(p, cached) ==
    [ success |-> TRUE,
      songs |-> HitSongs(p, cached),
      total |-> cached.total,
      pagination |-> [ page |-> p.page, limit |-> p.limit,
                       totalPages |-> CeilDiv(cached.total, p.limit) ] ]

HitResult(p, cached) ==
    [ success |-> TRUE,
      songs |-> HitSongs(p, cached),
      pagination |-> [ page |-> p.page, limit |-> p.limit,
                       total |-> cached.total,
                       totalPages |-> CeilDiv(cached.total, p.limit) ],
      filters |-> [ search |-> p.search,
                    semester |-> IF p.semester = "" THEN NullStr
                                 ELSE p.semester ] ]

\* ------------------------------------------------------------------------
\* The song-listing handler as a process per request (lines 116-470)
\* ------------------------------------------------------------------------

\* Largest page and limit a request of the model asks for.
MaxPage == 2
MaxLimit == 2

\* Values of the three filters that are not part of the cache key.
Grades == {"", "G3"}
PlayedValues == {"", "true", "false"}
ScheduledValues == {"", "true", "false"}

\* Raw page and limit values: missing or non-numeric (NaN), or a number.
RawPages == {NaN} \cup 1..MaxPage
RawLimits == {NaN} \cup 1..MaxLimit

\* Raw queries of the single-request specification.
Requests ==
    [ apiKey : BOOLEAN,
      search : {<<>>, <<1>>},
      semester : {"", "S1"},
      grade : Grades,
      played : PlayedValues,
      scheduled : ScheduledValues,
      page : RawPages,
      limit : RawLimits,
      sortBy : {"", "votes", "title"},
      sortOrder : {"", "asc"} ]

\* Raw queries of the two-request specification: they vary in one key field
\* (search) and in the fields that are not part of the key.
PairRequests ==
    [ apiKey : {TRUE},
      search : {<<>>, <<1>>},
      semester : {""},
      grade : Grades,
      played : {""},
      scheduled : {"", "true"},
      page : 1..MaxPage,
      limit : 1..MaxLimit,
      sortBy : {""},
      sortOrder : {""} ]

\* The failure a store query can end with in the two-request specification.
PairFailures == { <<"read", "ECONNRESET">> }

Tasks == {1, 2}

\* The await points of the miss path, in program order.
QueryOrder == <<"count", "songs", "votes", "schedules", "playTimes", "users">>


IdleTask ==
    [ pc |-> "idle",
      apiKey |-> FALSE,
      p |-> Params([search |-> <<>>, semester |-> "", grade |-> "",
                    played |-> "", scheduled |-> "", page |-> NaN,
                    limit |-> NaN, sortBy |-> "", sortOrder |-> ""]),
      key |-> <<>>,
      hit |-> FALSE,
      cachedSongsData |-> <<>>,
      storeCalls |-> 0,
      queries |-> <<>>,
      storeErr |-> <<>>,
      thrown |-> <<>>,
      total |-> 0,
      songsData |-> <<>>,
      voteCounts |-> <<>>,
      scheduledSongs |-> {},
      playTimesMap |-> <<>>,
      allUsers |-> <<>>,
      written |-> <<>>,
      result |-> <<>>,
      error |-> <<>> ]

\* Every key a request of the model can derive.
Keys == {NormalApiCacheKey(Params(q)) : q \in Requests \cup PairRequests}

HInit ==
    /\ catalog \in Catalogs
    /\ cache = [k \in Keys |-> <<>>]
    /\ openCache = {}
    /\ task = [t \in Tasks |-> IdleTask]

\* createError({statusCode, message}).
CreateError(code, msg) == [statusCode |-> code, message |-> msg]

\* error.statusCode of a failure that has none (undefined).
NoStatusCode == NullInt

\* The 401 of the apiKey check.
AuthFailure == CreateError(401, <<"API", "auth", "failed">>)

\* A failure of the store or of a cache with message m and no statusCode.
PlainFailure(m) == CreateError(NoStatusCode, m)

\* What the catch clause throws for a failure without statusCode.
InternalError == CreateError(500, <<"get", "songs", "failed">>)

\* The catch clause (lines 458-468): what leaves the handler when e was
\* thrown inside the try block.  A mutant: everything is thrown on as it is.
HandlerCatchRethrow(e) == e

HandlerCatch(e) == IF TruthyInt(e.statusCode) THEN e ELSE InternalError

\* Failures cache.get, cache.set and openApiCache.set can reject with.
CacheFailures ==
    { PlainFailure(<<"cache", "unreachable">>),
      CreateError(503, <<"cache", "unavailable">>) }

\* The request's locals after the apiKey check has failed.  A mutant: the
\* check is made after the cache lookup and the count query.
OnMissingApiKeyLate(l, p) ==
    [l EXCEPT !.pc = "failed", !.p = p, !.key = NormalApiCacheKey(p),
              !.storeCalls = 1,
              !.thrown = <<AuthFailure>>,
              !.error = <<HandlerCatch(AuthFailure)>>]

OnMissingApiKey(l, p) ==
    [l EXCEPT !.pc = "failed", !.p = p,
              !.thrown = <<AuthFailure>>,
              !.error = <<HandlerCatch(AuthFailure)>>]

\* Lines 118-151: the apiKey check, the parameters, the key, cache.get.
Start(t, q) ==
    /\ task[t].pc = "idle"
    /\ IF ~q.apiKey
       THEN task' = [task EXCEPT ![t] = OnMissingApiKey(task[t], Params(q))]
       ELSE task' = [task EXCEPT ![t].pc = "get",
                                 ![t].apiKey = TRUE,
                                 ![t].p = Params(q),
                                 ![t].key = NormalApiCacheKey(Params(q))]
    /\ UNCHANGED <<catalog, cache, openCache, wvars, pvars, nvars>>

\* The hit branch (lines 152-201): the request's locals when cache.get has
\* returned entry.  A mutant: the count query is made before the branch.
OnCacheHitAfterCount(l, entry) ==
    [l EXCEPT !.pc = "done", !.hit = TRUE, !.cachedSongsData = entry,
              !.storeCalls = 1, !.queries = <<"count">>,
              !.result = <<HitResult(l.p, entry[1])>>]

OnCacheHit(l, entry) ==
    [l EXCEPT !.pc = "done", !.hit = TRUE, !.cachedSongsData = entry,
              !.result = <<HitResult(l.p, entry[1])>>]

\* cache.get resolves (lines 151-201): a hit returns the sliced entry, a miss
\* goes on to the count query.
CacheGetReturns(t) ==
    /\ task[t].pc = "get"
    /\ IF cache[task[t].key] # <<>>
       THEN task' = [task EXCEPT
                ![t] = OnCacheHit(task[t], cache[task[t].key])]
       ELSE task' = [task EXCEPT ![t].pc = "count", ![t].storeCalls = 1]
    /\ UNCHANGED <<catalog, cache, openCache, wvars, pvars, nvars>>

\* The await point after the one at pc: the votes and schedules queries are
\* only made for a non-empty page.  A mutant: the entry is written as soon
\* as the songs are there.
NextQueryWriteEarly(pc, songsData) ==
    CASE pc = "count" -> "songs"
      [] pc = "songs" -> "set"
      [] pc = "votes" -> "schedules"
      [] pc = "schedules" -> "playTimes"
      [] pc = "playTimes" -> "users"
      [] pc = "users" -> "set"

NextQuery(pc, songsData) ==
    CASE pc = "count" -> "songs"
      [] pc = "songs" -> IF songsData = <<>> THEN "playTimes" ELSE "votes"
      [] pc = "votes" -> "schedules"
      [] pc = "schedules" -> "playTimes"
      [] pc = "playTimes" -> "users"
      [] pc = "users" -> "set"

SongIds(songsData) == {r.id : r \in Range(songsData)}

\* The locals of a request once the query at its pc has resolved.
WithQueryResult(cat, l) ==
    CASE l.pc = "count" -> [l EXCEPT !.total = TotalQuery(cat, l.p)]
      [] l.pc = "songs" -> [l EXCEPT !.songsData = SongsQuery(cat, l.p)]
      [] l.pc = "votes" ->
            [l EXCEPT !.voteCounts = VoteCountsQuery(cat, SongIds(l.songsData))]
      [] l.pc = "schedules" ->
            [l EXCEPT !.scheduledSongs =
                          ScheduledSongsQuery(cat, SongIds(l.songsData))]
      [] l.pc = "playTimes" -> [l EXCEPT !.playTimesMap = PlayTimesQuery(cat)]
      [] l.pc = "users" -> [l EXCEPT !.allUsers = AllUsersQuery(cat)]

\* formattedSongs of a request whose six queries have resolved.
TaskSongs(l) ==
    FormattedSongs(l.p, l.songsData, l.voteCounts, l.scheduledSongs,
                   l.playTimesMap, l.allUsers)

\* A store query of the miss path resolves (lines 234-313); after the last
\* one the page is composed and cache.set is called (lines 326-442).
QueryResolves(t) ==
    /\ task[t].pc \in Range(QueryOrder)
    /\ LET l == [WithQueryResult(catalog, task[t]) EXCEPT
                    !.queries = Append(@, task[t].pc)]
           next == NextQuery(task[t].pc, l.songsData)
       IN  task' = [task EXCEPT ![t] =
               IF next = "set"
               THEN [l EXCEPT !.pc = "set",
                              !.written = <<NormalApiResult(l.p, TaskSongs(l),
                                                            l.total)>>]
               ELSE [l EXCEPT !.pc = next, !.storeCalls = 1]]
    /\ UNCHANGED <<catalog, cache, openCache, wvars, pvars, nvars>>

\* What the handler does when the store query it awaits rejects with m,
\* having executed it calls times.  The query is a db.select builder, which
\* does not pass through the db.execute proxy: the rejection lands in the
\* handler's catch clause, which has no statusCode to pass on.
OnQueryFailure(m, calls) ==
    [pc |-> "failed", storeCalls |-> calls,
     error |-> <<HandlerCatch(PlainFailure(m))>>]

\* A store query of the miss path rejects with message m.
QueryRejects(t, m) ==
    /\ task[t].pc \in Range(QueryOrder)
    /\ LET o == OnQueryFailure(m, task[t].storeCalls)
       IN  task' = [task EXCEPT ![t].pc = o.pc,
                                ![t].storeCalls = o.storeCalls,
                                ![t].storeErr = <<m>>,
                                ![t].thrown = <<PlainFailure(m)>>,
                                ![t].error = o.error]
    /\ UNCHANGED <<catalog, cache, openCache, wvars, pvars, nvars>>

\* cache.set resolves (line 442): the entry is in the shared cache, and
\* openApiCache.set is called (lines 446-454).
CacheSetResolves(t) ==
    /\ task[t].pc = "set"
    /\ cache' = [cache EXCEPT ![task[t].key] = task[t].written]
    /\ task' = [task EXCEPT ![t].pc = "openSet"]
    /\ UNCHANGED <<catalog, openCache, wvars, pvars, nvars>>

\* openApiCache.generateKey('songs', {search, semester, page, limit, sortBy,
\* sortOrder}).
OpenApiCacheKey(p) ==
    <<"songs", p.search, p.semester, p.page, p.limit, p.sortBy, p.sortOrder>>

\* openApiCache.set resolves and the handler returns result (lines 454-456).
OpenCacheSetResolves(t) ==
    /\ task[t].pc = "openSet"
    /\ openCache' = openCache \cup {OpenApiCacheKey(task[t].p)}
    /\ task' = [task EXCEPT
           ![t].pc = "done",
           ![t].result = <<MissResult(task[t].p, task[t].written[1].songs,
                                      task[t].total)>>]
    /\ UNCHANGED <<catalog, cache, wvars, pvars, nvars>>

\* cache.get (line 151), cache.set (line 442) or openApiCache.set (line 454)
\* rejects with e: the catch clause decides what leaves the handler.  A
\* rejected set leaves the cache as it was.
CacheRejects(t, e) ==
    /\ task[t].pc \in {"get", "set", "openSet"}
    /\ task' = [task EXCEPT ![t].pc = "failed",
                            ![t].thrown = <<e>>,
                            ![t].error = <<HandlerCatch(e)>>]
    /\ UNCHANGED <<catalog, cache, openCache, wvars, pvars, nvars>>

\* Two requests, interleaved at their await points.
Next ==
    \/ \E t \in Tasks : task[t].pc = "idle" /\ \E q \in PairRequests : Start(t, q)
    \/ \E t \in Tasks : CacheGetReturns(t)
    \/ \E t \in Tasks : QueryResolves(t)
    \/ \E t \in Tasks : \E m \in PairFailures : QueryRejects(t, m)
    \/ \E t \in Tasks : CacheSetResolves(t)
    \/ \E t \in Tasks : OpenCacheSetResolves(t)

\* One request, with every raw query.
NextOne ==
    \/ task[1].pc = "idle" /\ \E q \in Requests : Start(1, q)
    \/ CacheGetReturns(1)
    \/ QueryResolves(1)
    \/ \E m \in Messages : QueryRejects(1, m)
    \/ \E e \in CacheFailures : CacheRejects(1, e)
    \/ CacheSetResolves(1)
    \/ OpenCacheSetResolves(1)

\* The retry wrapper on its own.
NextW ==
    \/ \E a \in Statements : WCall(a)
    \/ \E r \in Rows : WFirstOk(r)
    \/ \E m \in Messages : WFirstFail(m)
    \/ WRetry
    \/ \E r \in Rows : WRetryOk(r)
    \/ \E m \in Messages : WRetryFail(m)

Init == WInit /\ HInit /\ PInit /\ norm = <<>>

Spec == Init /\ [][Next]_vars

SpecOne == Init /\ [][NextOne]_vars

SpecW == Init /\ [][NextW]_vars

\* The process: faults, the health check timer, the close hook.
NextP ==
    \/ \E ch \in {"unhandledRejection", "uncaughtException"} :
         \E v \in FaultValues : Fault(ch, v)
    \/ UnhandledRejection
    \/ ReconnectWaitElapses
    \/ UncaughtException
    \/ IntervalFires
    \/ CloseHook
    \/ \E i \in 1..MaxTicks : ProbeResolves(i)
    \/ \E i \in 1..MaxTicks : \E m \in ProbeFailures : ProbeRejects(i, m)
    \/ \E i \in 1..MaxTicks : ProbeRetry(i)

SpecP == Init /\ [][NextP]_vars

\* The parameter parsing alone, over raw texts.
NextN ==
    /\ norm = <<>>
    /\ \E pageText \in RawTexts : \E limitText \in RawTexts :
          Normalise(pageText, limitText)

SpecN == Init /\ [][NextN]_vars

\* ------------------------------------------------------------------------
\* Properties
\* ------------------------------------------------------------------------

\* Two parameter records agree on the four fields of the cache key.
SameKeyFields(p1, p2) ==
    /\ p1.search = p2.search
    /\ p1.semester = p2.semester
    /\ p1.sortBy = p2.sortBy
    /\ p1.sortOrder = p2.sortOrder

\* The ids of a song list, in order.
IdsOf(songs) == [i \in 1..Len(songs) |-> songs[i].id]

IsErr(x) == "err" \in DOMAIN x
IsOk(x) == "ok" \in DOMAIN x

\* The raw queries that agree with the parameters p on search, semester,
\* sortBy and sortOrder, with every grade, played, scheduled, page and limit.
SameKeyRequests(p) ==
    [ apiKey : {TRUE},
      search : {p.search},
      semester : {p.semester},
      grade : Grades,
      played : PlayedValues,
      scheduled : ScheduledValues,
      page : RawPages,
      limit : RawLimits,
      sortBy : {p.sortBy},
      sortOrder : {p.sortOrder} ]

\* C1: every request that agrees with a running request on search, semester,
\* sortBy and sortOrder derives the key the running request derived,
\* whatever its grade, played, scheduled, page and limit are.
C1_KeyIgnoresOtherParams ==
    \A t \in Tasks :
        task[t].pc = "get" =>
            \A q \in SameKeyRequests(task[t].p) :
                /\ SameKeyFields(Params(q), task[t].p)
                /\ NormalApiCacheKey(Params(q)) = task[t].key

\* A request with grade G3 on page 2 has derived the key that the request
\* without grade on page 1 derives.
C1_Witness ==
    /\ task[1].pc = "get"
    /\ task[1].p.grade = "G3"
    /\ task[1].p.page = 2
    /\ task[1].p.scheduled = "true"
    /\ \E q \in SameKeyRequests(task[1].p) :
          /\ q.grade = "" /\ q.page = 1 /\ q.scheduled = "" /\ q.played = "false"
          /\ q.limit # task[1].p.limit
          /\ NormalApiCacheKey(Params(q)) = task[1].key

\* C2: the response of a request served from the cache is the response the
\* same cache entry gives for any other grade, played and scheduled value
\* (page, limit and the key fields unchanged).
C2_HitIgnoresFilters ==
    \A t \in Tasks :
        (task[t].pc = "done" /\ task[t].hit) =>
            \A g \in Grades, pl \in PlayedValues, sc \in ScheduledValues :
                HitResult([task[t].p EXCEPT !.grade = g, !.played = pl,
                                            !.scheduled = sc],
                          task[t].cachedSongsData[1])
                    = task[t].result[1]

\* A request with grade G3 is served from the entry a request without grade
\* wrote, and its response has song 2, whose requester is in grade G2.
C2_Witness ==
    \E t \in Tasks :
        /\ task[t].pc = "done" /\ task[t].hit
        /\ task[t].p.grade = "G3"
        /\ \E s \in Range(task[t].result[1].songs) : s.id = 2

\* C3: a request served from the cache after a request with the same key
\* fields, page and limit missed and populated the key returns the songs
\* that request returned.
C3_HitReturnsWhatMissReturned ==
    \A t1, t2 \in Tasks :
        ( /\ t1 # t2
          /\ task[t1].pc = "done" /\ ~task[t1].hit
          /\ task[t2].pc = "done" /\ task[t2].hit
          /\ SameKeyFields(task[t1].p, task[t2].p)
          /\ task[t1].p.page = task[t2].p.page
          /\ task[t1].p.limit = task[t2].p.limit )
        => IdsOf(task[t2].result[1].songs) = IdsOf(task[t1].result[1].songs)

\* C4: two missing requests that derive the same key hand the same songs and
\* the same total to cache.set.
C4_PayloadDependsOnKeyOnly ==
    \A t1, t2 \in Tasks :
        ( /\ task[t1].written # <<>>
          /\ task[t2].written # <<>>
          /\ task[t1].key = task[t2].key )
        => /\ task[t1].written[1].songs = task[t2].written[1].songs
           /\ task[t1].written[1].total = task[t2].written[1].total

\* C5: when two requests with the same key have both missed and both
\* written, the songs and the total left in the cache are the ones either of
\* them wrote, so they do not depend on which write came last.
C5_ConcurrentMissesIdempotent ==
    \A t1, t2 \in Tasks :
        ( /\ t1 # t2
          /\ task[t1].pc = "done" /\ ~task[t1].hit
          /\ task[t2].pc = "done" /\ ~task[t2].hit
          /\ task[t1].key = task[t2].key )
        => \A t \in {t1, t2} :
               /\ cache[task[t1].key][1].songs = task[t].written[1].songs
               /\ cache[task[t1].key][1].total = task[t].written[1].total

\* C6: when the first attempt failed with a transient-pattern message and
\* the retry resolved, the caller gets the retry's result and no error.
C6_RetrySuccess ==
    ( /\ Len(wsettled) = 2
      /\ IsErr(wsettled[1]) /\ IsTransientMessage(wsettled[1].err)
      /\ IsOk(wsettled[2]) )
    => (wpc = "returned" /\ wout = wsettled[2])

\* A call whose first attempt failed and whose retry resolved to rowsB has
\* returned.
C6_Witness ==
    /\ Len(wsettled) = 2
    /\ IsErr(wsettled[1])
    /\ wsettled[2] = [ok |-> "rowsB"]
    /\ wpc = "returned"

\* C7: when the first attempt failed with a transient-pattern message and the
\* retry failed too, the caller gets the retry's failure, and the store was
\* executed twice; no call is executed a third time.
C7_RetryExhaustion ==
    /\ Len(wcalls) <= 2
    /\ ( /\ Len(wsettled) >= 2
         /\ IsErr(wsettled[1]) /\ IsTransientMessage(wsettled[1].err)
         /\ IsErr(wsettled[2]) )
       => /\ wpc = "thrown"
          /\ wout = wsettled[2]
          /\ Len(wcalls) = 2
          /\ Len(wsettled) = 2

\* Both attempts failed, the second with a message that is itself retryable
\* and differs from the first.
C7_Witness ==
    /\ Len(wsettled) = 2
    /\ IsErr(wsettled[1]) /\ IsErr(wsettled[2])
    /\ ShouldRetry(wsettled[2].err)
    /\ wsettled[1] # wsettled[2]
    /\ wpc = "thrown"

\* C8: a first failure whose message has any of the five markers is followed
\* by the 1 second delay and one retry.
C8_EveryMarkerIsRetried ==
    ( /\ Len(wsettled) >= 1
      /\ IsErr(wsettled[1]) /\ IsTransientMessage(wsettled[1].err) )
    => /\ wtimer = RetryDelayMs
       /\ (wpc \in {"delay", "try2"} \/ Len(wcalls) = 2)

\* C9: a first failure whose message has none of the markers is propagated as
\* it is, after one execution and without a delay.
C9_NoRetryWhenNotTransient ==
    ( /\ Len(wsettled) >= 1
      /\ IsErr(wsettled[1]) /\ ~IsTransientMessage(wsettled[1].err) )
    => /\ wpc = "thrown"
       /\ wout = wsettled[1]
       /\ Len(wcalls) = 1
       /\ Len(wsettled) = 1
       /\ wtimer = NoTimer

\* The call failed once with 'Connection refused' and has thrown.
C9_Witness ==
    /\ wpc = "thrown"
    /\ wsettled = <<[err |-> <<"Connection", "refused">>]>>
    /\ wout = [err |-> <<"Connection", "refused">>]

\* C10: a request that failed because a store query of the pipeline rejected
\* with a retryable message has executed that query twice.
C10_PipelineQueriesAreRetried ==
    \A t \in Tasks :
        ( /\ task[t].pc = "failed"
          /\ task[t].storeErr # <<>>
          /\ ShouldRetry(task[t].storeErr[1]) )
        => task[t].storeCalls = 2

\* ------------------------------------------------------------------------
\* The process: fault handlers, health check, close hook
\* ------------------------------------------------------------------------

\* C11: every unhandled rejection and every uncaught exception is logged by
\* its handler and the process keeps running; no fault ends the process.
C11_ProcessStaysAlive ==
    /\ alive
    /\ lastFault # <<>> => lastFault[1].logged

\* C12: the unhandledRejection handler, the uncaughtException handler and the
\* retry wrapper classify a failure message alike: whenever one of them has
\* classified a message, its verdict is the verdict of the other two.
C12_OneClassificationPredicate ==
    /\ lastFault # <<>> /\ lastFault[1].value.hasMessage =>
          /\ lastFault[1].transient = RejectionIsTransient(lastFault[1].value)
          /\ lastFault[1].transient =
                ExceptionIsDatabaseRelated(lastFault[1].value.message)
          /\ lastFault[1].transient = ShouldRetry(lastFault[1].value.message)
    /\ \A i \in DOMAIN probes :
          probes[i].settled # <<>> /\ "err" \in DOMAIN probes[i].settled[1] =>
              /\ (probes[i].calls = 2) =
                    RejectionIsTransient(WithMessage(probes[i].settled[1].err))
              /\ (probes[i].calls = 2) =
                    ExceptionIsDatabaseRelated(probes[i].settled[1].err)

\* C13: a failed health probe, with or without a retry by the wrapper, is
\* only logged: nothing of it reaches a process fault channel or a fault
\* handler, and the probe makes no store call beyond the wrapper's attempts.
C13_ProbeFailureContained ==
    /\ \A f \in pending : f.origin # "health"
    /\ lastFault # <<>> => lastFault[1].origin # "health"
    /\ \A i \in DOMAIN probes :
          probes[i].pc = "caught" =>
              /\ probes[i].logged
              /\ probes[i].calls = Len(probes[i].settled)
              /\ probes[i].calls <= 2

C13_Witness ==
    /\ alive
    /\ \E i \in DOMAIN probes :
          /\ probes[i].pc = "caught"
          /\ probes[i].calls = 2
          /\ "err" \in DOMAIN probes[i].settled[2]
    /\ \E i \in DOMAIN probes :
          /\ probes[i].pc = "caught"
          /\ probes[i].calls = 1

\* C14: the i-th probe starts at the i-th 60 s tick after initialisation, and
\* once the close hook has run no probe starts any more.
C14_ProbesOnlyWhileOpen ==
    /\ \A i \in DOMAIN probes :
          probes[i].startedAt = i * HealthCheckIntervalMs
    /\ closedAt # NotClosed =>
          /\ interval = "cleared"
          /\ \A i \in DOMAIN probes : probes[i].startedAt <= closedAt

C14_Witness ==
    /\ closedAt = HealthCheckIntervalMs
    /\ Len(probes) = 1
    /\ probes[1].pc = "ok"
    /\ interval = "cleared"

\* ------------------------------------------------------------------------
\* The handler's failures
\* ------------------------------------------------------------------------

\* C15: a request without apiKey fails with status 401 before any cache
\* lookup, store query or cache write, and the 401 leaves the handler as it
\* was created, not rewrapped as a 500.
C15_AuthFailsFast ==
    \A t \in Tasks :
        task[t].pc # "idle" /\ ~task[t].apiKey =>
            /\ task[t].pc = "failed"
            /\ task[t].error = <<AuthFailure>>
            /\ task[t].error[1].statusCode = 401
            /\ task[t].key = <<>>
            /\ ~task[t].hit
            /\ task[t].storeCalls = 0
            /\ task[t].written = <<>>
            /\ \A k \in Keys : cache[k] = <<>>
            /\ openCache = {}

C15_Witness ==
    /\ task[1].pc = "failed"
    /\ ~task[1].apiKey
    /\ task[1].thrown = <<AuthFailure>>
    /\ task[1].error[1].statusCode = 401

\* C16: every failure that leaves the handler carries a status code: one
\* thrown inside with a status code leaves unchanged, one without is
\* replaced by the status-500 failure with the fixed message.
C16_FailureShaping ==
    \A t \in Tasks :
        task[t].pc = "failed" =>
            /\ task[t].error # <<>>
            /\ task[t].thrown # <<>>
            /\ task[t].error[1].statusCode \notin {0, NoStatusCode}
            /\ task[t].thrown[1].statusCode \notin {0, NoStatusCode} =>
                  task[t].error = task[t].thrown
            /\ task[t].thrown[1].statusCode \in {0, NoStatusCode} =>
                  /\ task[t].error[1].statusCode = 500
                  /\ task[t].error[1].message = <<"get", "songs", "failed">>

\* A store query has failed without status code and a 500 left the handler.
C16_Witness ==
    /\ task[1].pc = "failed"
    /\ task[1].apiKey
    /\ task[1].storeErr # <<>>
    /\ task[1].thrown[1].statusCode = NoStatusCode
    /\ task[1].error[1].statusCode = 500

\* cache.set has failed with a status 503 and that failure left the handler.
C16_WitnessRethrown ==
    /\ task[1].pc = "failed"
    /\ task[1].apiKey
    /\ task[1].written # <<>>
    /\ task[1].thrown[1].statusCode = 503
    /\ task[1].error = task[1].thrown

\* ------------------------------------------------------------------------
\* Page and limit
\* ------------------------------------------------------------------------

\* The text is a plain decimal numeral.
IsNumeral(text) ==
    /\ text # <<>>
    /\ \A i \in DOMAIN text : text[i] \in DOMAIN DigitValue

\* The text has no digit at all (missing, or not numeric).
HasNoDigit(text) == \A i \in DOMAIN text : text[i] \notin DOMAIN DigitValue

RECURSIVE NumeralValue(_)
NumeralValue(text) ==
    IF text = <<>> THEN 0
    ELSE 10 * NumeralValue(SubSeq(text, 1, Len(text) - 1))
         + DigitValue[text[Len(text)]]

\* C17: whatever the raw limit, the effective limit is at most 100; a numeral
\* above 100 gives 100; a missing or non-numeric limit gives 20.
C17_LimitNormalised ==
    norm # <<>> =>
        /\ norm[1].limit <= 100
        /\ IsNumeral(norm[1].rawLimit) /\ NumeralValue(norm[1].rawLimit) > 100
              => norm[1].limit = 100
        /\ HasNoDigit(norm[1].rawLimit) => norm[1].limit = 20

C17_Witness ==
    /\ norm # <<>>
    /\ norm[1].rawLimit = <<"5", "0", "0">>
    /\ norm[1].limit = 100

\* C18: whatever the raw page, the effective page is at least 1 (0, negative,
\* missing and non-numeric pages give 1), so with a positive limit the offset
\* is never negative.
C18_PageNormalised ==
    norm # <<>> =>
        /\ norm[1].page >= 1
        /\ norm[1].limit > 0 => norm[1].offset >= 0

\* ------------------------------------------------------------------------
\* The responses
\* ------------------------------------------------------------------------

\* C19: the response of a hit and the response of a miss both carry a
\* pagination block with exactly the fields page, limit, total, totalPages;
\* page and limit are the request's effective values and totalPages is
\* total / limit rounded up.
C19_PaginationParity ==
    \A t \in Tasks :
        task[t].pc = "done" =>
            LET pg == task[t].result[1].pagination
            IN  /\ DOMAIN pg = {"page", "limit", "total", "totalPages"}
                /\ pg.page = task[t].p.page
                /\ pg.limit = task[t].p.limit
                /\ pg.totalPages * pg.limit >= pg.total
                /\ (pg.totalPages - 1) * pg.limit < pg.total

\* A miss and a hit of the same parameters, with more than one page.
C19_Witness ==
    /\ task[1].pc = "done" /\ ~task[1].hit
    /\ task[2].pc = "done" /\ task[2].hit
    /\ task[1].p = task[2].p
    /\ task[2].result[1].pagination.totalPages > 1
    /\ task[2].result[1].pagination = task[1].result[1].pagination

\* C20: on a miss a returned song has scheduled = true exactly when the
\* catalog has a schedule row of that song that is not a draft.
C20_ScheduledFromPublishedRows ==
    \A t \in Tasks :
        task[t].pc = "done" /\ ~task[t].hit =>
            \A i \in DOMAIN task[t].result[1].songs :
                LET song == task[t].result[1].songs[i]
                IN  song.scheduled =
                        (\E r \in Range(catalog.schedules) :
                            r.songId = song.id /\ ~r.isDraft)

\* A page with a song that has a draft and a published row (true) and a song
\* that has only a draft row (false).
C20_Witness ==
    /\ task[1].pc = "done" /\ ~task[1].hit
    /\ \E i, j \in DOMAIN task[1].result[1].songs :
          LET a == task[1].result[1].songs[i]
              b == task[1].result[1].songs[j]
          IN  /\ a.scheduled
              /\ \E r \in Range(catalog.schedules) : r.songId = a.id /\ r.isDraft
              /\ ~b.scheduled
              /\ \E r \in Range(catalog.schedules) : r.songId = b.id /\ r.isDraft

\* ------------------------------------------------------------------------
\* The wrapper's attempts
\* ------------------------------------------------------------------------

\* C28: within one wrapped execution at most one attempt is in flight at any
\* time; a second attempt exists only when the first has settled as a failure
\* and the 1 s timer has been set and has elapsed; both attempts are made
\* with the arguments of the call.
C28_SequentialRetry ==
    /\ winflight <= 1
    /\ winflight = Len(wcalls) - Len(wsettled)
    /\ \A i \in DOMAIN wcalls : wcalls[i] = wargs
    /\ Len(wcalls) = 2 =>
          /\ Len(wsettled) >= 1
          /\ IsErr(wsettled[1])
          /\ wtimer = RetryDelayMs
    /\ wpc = "delay" => winflight = 0 /\ Len(wcalls) = 1

\* The retry is in flight, alone, after the first attempt has failed.
C28_Witness ==
    /\ wpc = "try2"
    /\ winflight = 1
    /\ wcalls = <<wargs, wargs>>
    /\ Len(wsettled) = 1 /\ IsErr(wsettled[1])
    /\ wtimer = RetryDelayMs

\* ------------------------------------------------------------------------
\* The aggregation of a miss
\* ------------------------------------------------------------------------

\* The responses of requests that missed the cache.
MissTasks == {t \in Tasks : task[t].pc = "done" /\ ~task[t].hit}

\* The catalog's user with the given id.
UserById(id) == CHOOSE u \in Range(catalog.users) : u.id = id

UsersNamed(name) == {u \in Range(catalog.users) : u.name = name}

\* The requester id of the catalog's song with the given id.
RequesterIdOf(songId) ==
    (CHOOSE s \in Range(catalog.songs) : s.id = songId).requesterId

WithGrade(u) == u.name \o "(" \o u.grade \o ")"

WithGradeAndClass(u) == u.name \o "(" \o u.grade \o " " \o u.class \o ")"

\* The three tiers as stated: by the number of users of the same name, and
\* of the same name and grade.
TierName(u) ==
    LET same == UsersNamed(u.name)
        sameGrade == {v \in same : v.grade = u.grade}
    IN  IF Cardinality(same) = 1 THEN u.name
        ELSE IF Cardinality(sameGrade) > 1 THEN WithGradeAndClass(u)
        ELSE WithGrade(u)

\* The three tiers, a suffix being added only from columns that are set.
TierNameWhereSet(u) ==
    LET same == UsersNamed(u.name)
        sameGrade == {v \in same : v.grade = u.grade}
    IN  IF Cardinality(same) = 1 \/ ~TruthyStr(u.grade) THEN u.name
        ELSE IF Cardinality(sameGrade) > 1 /\ TruthyStr(u.class)
        THEN WithGradeAndClass(u)
        ELSE WithGrade(u)

\* C21 as stated: on a miss a requester with a unique name is shown
\* unchanged, one of several with that name carries the grade, and one of
\* several with that name and grade carries grade and class.
C21_ThreeTierNames ==
    \A t \in MissTasks :
        \A i \in DOMAIN task[t].result[1].songs :
            LET song == task[t].result[1].songs[i]
            IN  RequesterIdOf(song.id) # NullInt =>
                    song.requester = TierName(UserById(RequesterIdOf(song.id)))

\* C21 amended: the three tiers hold where the requester's grade and class
\* are set; a same-name requester without grade is shown by the plain name,
\* a same-name, same-grade requester without class by name and grade.
C21_ThreeTierNamesWhereSet ==
    \A t \in MissTasks :
        \A i \in DOMAIN task[t].result[1].songs :
            LET song == task[t].result[1].songs[i]
            IN  RequesterIdOf(song.id) # NullInt =>
                    song.requester =
                        TierNameWhereSet(UserById(RequesterIdOf(song.id)))

\* One page with a unique name, a name with grade, a name with grade and
\* class.
C21_Witness ==
    /\ 1 \in MissTasks
    /\ \E i, j, k \in DOMAIN task[1].result[1].songs :
          /\ task[1].result[1].songs[i].requester = "Wu"
          /\ task[1].result[1].songs[j].requester = "Li(G2)"
          /\ task[1].result[1].songs[k].requester = "Li(G3 1)"

\* C22: on a miss with sortBy = votes the page is ordered by voteCount,
\* descending under sortOrder = desc and ascending otherwise, and songs with
\* equal voteCount are in ascending createdAt order under both.
C22_VoteOrdering ==
    \A t \in MissTasks :
        task[t].p.sortBy = "votes" =>
            LET songs == task[t].result[1].songs
            IN  \A i, j \in DOMAIN songs :
                    i < j =>
                        /\ task[t].p.sortOrder = "desc" =>
                              songs[i].voteCount >= songs[j].voteCount
                        /\ task[t].p.sortOrder # "desc" =>
                              songs[i].voteCount <= songs[j].voteCount
                        /\ songs[i].voteCount = songs[j].voteCount =>
                              songs[i].createdAt < songs[j].createdAt

\* Descending order with a tie: the earlier of two songs with one vote each
\* comes first, after the song with two votes.
C22_Witness ==
    /\ 1 \in MissTasks
    /\ task[1].p.sortBy = "votes" /\ task[1].p.sortOrder = "desc"
    /\ LET songs == task[1].result[1].songs
       IN  /\ Len(songs) >= 3
           /\ songs[1].voteCount > songs[2].voteCount
           /\ songs[2].voteCount = songs[3].voteCount
           /\ songs[2].createdAt < songs[3].createdAt

\* The rows that match search, semester, grade and played.
MatchesFilters(p, s) ==
    /\ p.search # <<>> =>
          Includes(s.title, p.search) \/ Includes(s.artist, p.search)
    /\ p.semester # "" => s.semester = p.semester
    /\ p.grade # "" =>
          /\ s.requesterId # NullInt
          /\ UserById(s.requesterId).grade = p.grade
    /\ p.played = "true" => s.played
    /\ p.played = "false" => ~s.played

\* C23: on a miss total is the number of rows matching search, semester,
\* grade and played, whatever the scheduled filter, totalPages follows from
\* it, and every returned song has the scheduled flag the filter asks for.
C23_ScheduledFilterAfterPaging ==
    \A t \in MissTasks :
        LET r == task[t].result[1]
            p == task[t].p
            n == Cardinality({s \in Range(catalog.songs) : MatchesFilters(p, s)})
        IN  /\ r.pagination.total = n
            /\ r.pagination.totalPages * p.limit >= n
            /\ (r.pagination.totalPages - 1) * p.limit < n
            /\ \A i \in DOMAIN r.songs :
                  /\ p.scheduled = "true" => r.songs[i].scheduled
                  /\ p.scheduled = "false" => ~r.songs[i].scheduled

\* scheduled = true: four rows counted, one page, one song returned.
C23_Witness ==
    /\ 1 \in MissTasks
    /\ task[1].p.scheduled = "true"
    /\ task[1].result[1].pagination.total = 4
    /\ task[1].result[1].pagination.totalPages = 1
    /\ Len(task[1].result[1].songs) = 1

\* ------------------------------------------------------------------------
\* The responses of a hit
\* ------------------------------------------------------------------------

\* The requests that were served from the cache.
HitTasks == {t \in Tasks : task[t].pc = "done" /\ task[t].hit}

\* The display name the aggregation pass gives the requester of a song.
DisplayNameOf(songId) ==
    IF RequesterIdOf(songId) = NullInt THEN UnknownUser
    ELSE TierNameWhereSet(UserById(RequesterIdOf(songId)))

\* C24: every song of a successful response, of a miss and of a hit, carries
\* the requester display name the aggregation pass produced for it.
C24_RequesterNameInEveryResponse ==
    /\ \A t \in MissTasks :
          \A i \in DOMAIN task[t].result[1].songs :
              task[t].result[1].songs[i].requester =
                  DisplayNameOf(task[t].result[1].songs[i].id)
    /\ \A t \in HitTasks :
          \A i \in DOMAIN task[t].result[1].songs :
              /\ task[t].result[1].songs[i].requester # <<>>
              /\ task[t].result[1].songs[i].requester[1].name =
                    DisplayNameOf(task[t].result[1].songs[i].id)

BothMissed(k) ==
    \A t \in Tasks :
        /\ task[t].key = k
        /\ ~task[t].hit
        /\ task[t].pc \notin {"idle", "get"}

\* C26: a request served from the cache has made no store query and no
\* cache write, the entry it read is still in the cache as it read it, and
\* unless two requests missed concurrently an entry is what the one miss
\* under its key wrote; only misses write to the open-API cache.
C26_HitHasNoSideEffects ==
    /\ \A t \in Tasks :
          task[t].hit =>
              /\ task[t].storeCalls = 0
              /\ task[t].queries = <<>>
              /\ task[t].written = <<>>
              /\ cache[task[t].key] = task[t].cachedSongsData
    /\ \A k \in Keys :
          cache[k] # <<>> /\ ~BothMissed(k) =>
              \E t \in Tasks :
                  /\ ~task[t].hit
                  /\ task[t].key = k
                  /\ cache[k] = task[t].written
    /\ openCache \subseteq {OpenApiCacheKey(task[t].p) : t \in MissTasks}

\* A miss wrote the entry, a later request was served from it, and the entry
\* is still what the miss wrote.
C26_Witness ==
    /\ 1 \in MissTasks
    /\ 2 \in HitTasks
    /\ task[2].key = task[1].key
    /\ cache[task[1].key] = task[1].written
    /\ task[2].cachedSongsData = task[1].written

\* ------------------------------------------------------------------------
\* The order of a miss
\* ------------------------------------------------------------------------

\* The store queries a request makes for its page: the votes and schedules
\* queries are made for a page with songs only.
QueriesOfPage(songsData) ==
    IF songsData = <<>> THEN <<"count", "songs", "playTimes", "users">>
    ELSE QueryOrder

\* The parts of C27 that do not count the queries: no store query and no
\* payload before cache.get has returned; the response of a miss is returned
\* with the entry written; a failed store query ends in a failure with a
\* status code and leaves the cache as it was.
MissOrderFrame(t) ==
    /\ task[t].pc \in {"idle", "get"} =>
          /\ task[t].queries = <<>>
          /\ task[t].storeCalls = 0
          /\ task[t].written = <<>>
    /\ t \in MissTasks =>
          /\ task[t].written # <<>>
          /\ cache[task[t].key] = task[t].written
    /\ task[t].pc = "failed" /\ task[t].storeErr # <<>> =>
          /\ task[t].error # <<>>
          /\ task[t].error[1].statusCode = 500
          /\ \A k \in Keys : cache[k] = <<>>

\* C27 as stated: the lookup precedes every store query, the entry is
\* written only when all six store queries have succeeded and before the
\* response is returned, and a failed store query ends in a structured
\* failure with the cache unchanged.
C27_MissOrder ==
    \A t \in Tasks :
        /\ MissOrderFrame(t)
        /\ task[t].key # <<>> /\ cache[task[t].key] # <<>> =>
              task[t].queries = QueryOrder

\* C27 amended: the entry is written only when every store query of the
\* request has succeeded: six for a page with songs, four (count, songs,
\* play times, users) for an empty page.
C27_MissOrderOfPage ==
    \A t \in Tasks :
        /\ MissOrderFrame(t)
        /\ task[t].key # <<>> /\ cache[task[t].key] # <<>> =>
              task[t].queries = QueriesOfPage(task[t].songsData)

\* A miss that made six queries has returned with its entry in the cache.
C27_Witness ==
    /\ 1 \in MissTasks
    /\ task[1].queries = QueryOrder
    /\ task[1].storeCalls = 1
    /\ cache[task[1].key] = task[1].written

====
